---------------------------- MODULE Spec2Model ----------------------------
(***************************************************************************)
(* gopkgcp: extraction of a Go package and its dependencies into a new     *)
(* module (src/main.go).  The model covers the path classifier             *)
(* (shouldSkipDir, shouldCopyFile), the tree copier (copyDir, copyFile),   *)
(* the module rewriter (replaceModuleInFiles) and the orchestrator (main), *)
(* over an explicit file system.                                           *)
(*                                                                         *)
(* Go strings are sequences of one-character strings, a path is the        *)
(* sequence of its components, and the file system maps every existing     *)
(* path to a node [dir, mode, data].                                       *)
(***************************************************************************)
EXTENDS Integers, Sequences, FiniteSets, TLC

VARIABLES
    fs,          \* the file system: path -> [dir, mode, data]
    superuser,   \* whether the process runs with euid 0 (permission bits ignored)
    umask,       \* the file mode creation mask of the process
    stack,       \* copyDir call stack, innermost frame last
    ret,         \* value returned by the copyDir call that last returned ("none" while running)
    calls,       \* number of copyDir calls entered by the current top-level invocation
    nio,         \* number of file-system operations issued by the current top-level invocation
    firstErr,    \* first error raised inside the current top-level invocation
    errDepth,    \* stack depth at which firstErr was raised
    run,         \* which invocation of the operation under test is in progress (1 or 2)
    fs0,         \* file system when the first invocation started
    fs1,         \* file system when the first invocation returned
    src0,        \* source argument of the top-level copyDir / dir argument of the rewrite
    dst0,        \* destination argument of the top-level copyDir
    walk,        \* replaceModuleInFiles: paths filepath.Walk has still to visit
    oldModule,   \* replaceModuleInFiles argument
    newModule,   \* replaceModuleInFiles argument
    rwRet,       \* value returned by replaceModuleInFiles ("none" while running)
    writes,      \* number of os.WriteFile calls made by the current rewrite
    pc,          \* main: position in the pipeline
    pkg,         \* main: whether -pkg was given
    output,      \* main: whether -o was given
    moduleOnly,  \* main: -module-only
    modName,     \* main: -mod ("" when absent)
    deps,        \* main: the dependency list returned by runGoda
    di,          \* main: index of the dependency the copy loop is at
    copied,      \* main: the copied counter
    attempts,    \* main: the copyDir calls made by the loop, in order
    exitCode,    \* main: process exit code (-1 while running)
    trace,       \* main: the pipeline steps executed so far, with their outcome
    faults       \* number of I/O faults injected so far

copyVars == <<stack, ret, calls, nio, firstErr, errDepth>>
testVars == <<run, fs0, fs1, src0, dst0>>
rwVars   == <<walk, oldModule, newModule, rwRet, writes>>
mainVars == <<pc, pkg, output, moduleOnly, modName, deps, di, copied, attempts, exitCode, trace, faults>>
vars     == <<fs, superuser, umask, copyVars, testVars, rwVars, mainVars>>

---------------------------------------------------------------------------
(* Bounds of the model. *)

\* deepest destination (in components) a copyDir call is explored for; the
\* code has no such limit: a recursion that runs deeper is followed no further
MaxDepth == 4
\* longest file content in the rewrite scenarios
MaxLen == 3
\* longest oldModule / newModule in the rewrite scenarios
MaxModLen == 2
\* longest dependency list in the pipeline scenarios
MaxDeps == 3
\* injected I/O faults per scenario
MaxFaults == 1

---------------------------------------------------------------------------
(* Strings. *)

Min(S) == CHOOSE x \in S : \A y \in S : x <= y

\* strings.HasSuffix
HasSuffix(s, suffix) ==
    /\ Len(s) >= Len(suffix)
    /\ SubSeq(s, Len(s) - Len(suffix) + 1, Len(s)) = suffix

\* strings.HasPrefix
HasPrefix(s, prefix) ==
    /\ Len(s) >= Len(prefix)
    /\ SubSeq(s, 1, Len(prefix)) = prefix

\* strings.TrimPrefix
TrimPrefix(s, prefix) ==
    IF HasPrefix(s, prefix) THEN SubSeq(s, Len(prefix) + 1, Len(s)) ELSE s

\* strings.Index, 1-based; 0 when substr does not occur in s
Index(s, substr) ==
    LET hits == {k \in 1..(Len(s) - Len(substr) + 1) :
                    SubSeq(s, k, k + Len(substr) - 1) = substr}
    IN  IF hits = {} THEN 0 ELSE Min(hits)

\* strings.Count: number of non-overlapping occurrences; Len(s)+1 for the empty substr
RECURSIVE Count(_, _)
Count(s, substr) ==
    IF substr = <<>> THEN Len(s) + 1
    ELSE LET k == Index(s, substr)
         IN  IF k = 0 THEN 0
             ELSE 1 + Count(SubSeq(s, k + Len(substr), Len(s)), substr)

\* the loop of strings.Replace: n replacements still to make, from position start
\* (0-based) of s, having made i so far
RECURSIVE ReplaceLoop(_, _, _, _, _, _)
ReplaceLoop(s, old, new, n, i, start) ==
    IF i = n THEN SubSeq(s, start + 1, Len(s))
    ELSE LET j == IF old = <<>>
                  THEN (IF i > 0 THEN start + 1 ELSE start)
                  ELSE start + Index(SubSeq(s, start + 1, Len(s)), old) - 1
         IN  SubSeq(s, start + 1, j) \o new
                \o ReplaceLoop(s, old, new, n, i + 1, j + Len(old))

\* strings.ReplaceAll
ReplaceAll(s, old, new) ==
    LET n == Count(s, old)
    IN  IF n = 0 THEN s ELSE ReplaceLoop(s, old, new, n, 0, 0)

\* byte order of the characters used in names
Ascii == << ".", "/", "A", "C", "D", "E", "I", "L", "M", "N", "R", "S", "_",
            "a", "b", "c", "d", "e", "g", "i", "m", "n", "o", "p", "q", "r",
            "s", "t", "u", "v", "x" >>

Ord(c) == CHOOSE k \in 1..Len(Ascii) : Ascii[k] = c

\* a < b in byte-wise lexical order
Less(a, b) ==
    \E k \in 1..(Len(a) + 1) :
        /\ k <= Len(b)
        /\ SubSeq(a, 1, k - 1) = SubSeq(b, 1, k - 1)
        /\ (k = Len(a) + 1 \/ Ord(a[k]) < Ord(b[k]))

\* the names of S in increasing order (os.ReadDir and filepath.Walk sort by name)
RECURSIVE SortNames(_)
SortNames(S) ==
    IF S = {} THEN <<>>
    ELSE LET m == CHOOSE x \in S : \A y \in S \ {x} : Less(x, y)
         IN  <<m>> \o SortNames(S \ {m})

---------------------------------------------------------------------------
(* Path classifier. *)

skip == << <<"t","e","s","t","d","a","t","a">>, <<"v","e","n","d","o","r">>,
           <<".","g","i","t">>, <<"_","t","e","s","t">> >>

important == << <<"g","o",".","m","o","d">>, <<"g","o",".","s","u","m">>,
                <<"L","I","C","E","N","S","E">>,
                <<"R","E","A","D","M","E",".","m","d">> >>

DotGo == <<".","g","o">>
TestDotGo == <<"_","t","e","s","t",".","g","o">>
GoMod == <<"g","o",".","m","o","d">>
GoSum == <<"g","o",".","s","u","m">>

shouldSkipDir(name) ==
    \E k \in 1..Len(skip) : name = skip[k] \/ HasSuffix(name, skip[k])

shouldCopyFileNoTestCheck(name) ==
    \/ HasSuffix(name, DotGo)
    \/ \E k \in 1..Len(important) : name = important[k]

shouldCopyFile(name) ==
    IF HasSuffix(name, DotGo)
    THEN ~HasSuffix(name, TestDotGo)
    ELSE \E k \in 1..Len(important) : name = important[k]

---------------------------------------------------------------------------
(* File system.  Every file belongs to the user the process runs as, so the *)
(* owner bits of a mode decide access.  A new entry is stored with the      *)
(* requested mode less the bits of the process's umask.                     *)

\* perm &^ mask on permission bits: the mode a new entry is stored with
RECURSIVE AndNot(_, _)
AndNot(perm, mask) ==
    IF perm = 0 THEN 0
    ELSE (IF perm % 2 = 1 /\ mask % 2 = 0 THEN 1 ELSE 0) + 2 * AndNot(perm \div 2, mask \div 2)

OwnerR(mode) == (mode \div 256) % 2 = 1
OwnerW(mode) == (mode \div 128) % 2 = 1
OwnerX(mode) == (mode \div 64) % 2 = 1

\* 0755, 0555, 0644, 0444
Mode0755 == 493
Mode0555 == 5 * 64 + 5 * 8 + 5
Mode0644 == 420
Mode0444 == 4 * 64 + 4 * 8 + 4
\* 0666, the mode the go command asks for when it creates go.sum
Mode0666 == 6 * 64 + 6 * 8 + 6

\* the masks the scenarios run under: 0022 (the default) and 0077
Umask022 == 2 * 8 + 2
Umask077 == 7 * 8 + 7

Parent(p) == SubSeq(p, 1, Len(p) - 1)
Base(p) == p[Len(p)]
IsUnder(p, d) == Len(p) > Len(d) /\ SubSeq(p, 1, Len(d)) = d

DirNode(mode) == [dir |-> TRUE, mode |-> mode, data |-> <<>>]
FileNode(mode, data) == [dir |-> FALSE, mode |-> mode, data |-> data]

\* f with path p bound to node
Put(f, p, node) == [q \in DOMAIN f \cup {p} |-> IF q = p THEN node ELSE f[q]]

\* path resolution of every component of p but the last, then of p itself:
\* "nil" or the errno of stat(p)
LookupErr(f, su, p) ==
    LET bad == {k \in 0..(Len(p) - 1) :
                   LET a == SubSeq(p, 1, k)
                   IN  \/ a \notin DOMAIN f
                       \/ ~f[a].dir
                       \/ (~su /\ ~OwnerX(f[a].mode))}
    IN  IF bad = {}
        THEN (IF p \in DOMAIN f THEN "nil" ELSE "ENOENT")
        ELSE LET a == SubSeq(p, 1, Min(bad))
             IN  IF a \notin DOMAIN f THEN "ENOENT"
                 ELSE IF ~f[a].dir THEN "ENOTDIR"
                 ELSE "EACCES"

\* why an entry cannot be created at p ("nil" when it can)
\* (the parent is resolved and searched before the name is looked at, so a
\* parent without search permission is EACCES whether or not p exists)
CreateErr(f, su, p) ==
    IF p = <<>> THEN "EEXIST"
    ELSE IF LookupErr(f, su, Parent(p)) # "nil" THEN LookupErr(f, su, Parent(p))
    ELSE IF ~f[Parent(p)].dir THEN "ENOTDIR"
    ELSE IF ~su /\ ~OwnerX(f[Parent(p)].mode) THEN "EACCES"
    ELSE IF p \in DOMAIN f THEN "EEXIST"
    ELSE IF ~su /\ ~OwnerW(f[Parent(p)].mode) THEN "EACCES"
    ELSE "nil"

\* os.Mkdir
Mkdir(f, su, um, p, perm) ==
    LET e == CreateErr(f, su, p)
    IN  IF e = "nil" THEN [fs |-> Put(f, p, DirNode(AndNot(perm, um))), err |-> "nil"]
        ELSE [fs |-> f, err |-> e]

\* os.MkdirAll: nothing to do for an existing directory; otherwise the parents
\* first, each created with perm
RECURSIVE MkdirAll(_, _, _, _, _)
MkdirAll(f, su, um, p, perm) ==
    IF LookupErr(f, su, p) = "nil"
    THEN [fs |-> f, err |-> IF f[p].dir THEN "nil" ELSE "ENOTDIR"]
    ELSE LET up == IF Len(p) > 1 THEN MkdirAll(f, su, um, Parent(p), perm)
                   ELSE [fs |-> f, err |-> "nil"]
         IN  IF up.err # "nil" THEN up
             ELSE LET r == Mkdir(up.fs, su, um, p, perm)
                  IN  IF r.err # "nil" /\ LookupErr(r.fs, su, p) = "nil" /\ r.fs[p].dir
                      THEN [fs |-> r.fs, err |-> "nil"]
                      ELSE r

\* os.ReadDir: the entries of p sorted by name, each with the type the directory
\* records for it
ReadDir(f, su, p) ==
    IF LookupErr(f, su, p) # "nil" THEN [entries |-> <<>>, err |-> LookupErr(f, su, p)]
    ELSE IF ~f[p].dir THEN [entries |-> <<>>, err |-> "ENOTDIR"]
    ELSE IF ~su /\ ~OwnerR(f[p].mode) THEN [entries |-> <<>>, err |-> "EACCES"]
    ELSE LET names == {Base(q) : q \in {q \in DOMAIN f : Len(q) = Len(p) + 1 /\ Parent(q) = p}}
             sorted == SortNames(names)
         IN  [entries |-> [k \in 1..Len(sorted) |->
                              [name |-> sorted[k], isDir |-> f[Append(p, sorted[k])].dir]],
              err |-> "nil"]

\* os.Open(src)
OpenErr(f, su, src) ==
    IF LookupErr(f, su, src) # "nil" THEN LookupErr(f, su, src)
    ELSE IF ~su /\ ~OwnerR(f[src].mode) THEN "EACCES"
    ELSE "nil"

\* os.OpenFile(dst, O_WRONLY|O_CREATE|O_TRUNC, perm): an existing file is
\* truncated and keeps its mode, a missing one is created with perm
OpenTrunc(f, su, um, dst, perm) ==
    IF dst \in DOMAIN f /\ LookupErr(f, su, dst) = "nil"
    THEN IF f[dst].dir THEN [fs |-> f, err |-> "EISDIR"]
         ELSE IF ~su /\ ~OwnerW(f[dst].mode) THEN [fs |-> f, err |-> "EACCES"]
         ELSE [fs |-> Put(f, dst, FileNode(f[dst].mode, <<>>)), err |-> "nil"]
    ELSE LET e == CreateErr(f, su, dst)
         IN  IF e = "nil" THEN [fs |-> Put(f, dst, FileNode(AndNot(perm, um), <<>>)), err |-> "nil"]
             ELSE [fs |-> f, err |-> e]

\* copyFile(src, dst); fault names the call an I/O fault is injected in
\* ("none", "open", "create", "copy").  io.Copy reads the source after the
\* destination was truncated; a failing io.Copy leaves the destination empty.
copyFile(f, su, um, src, dst, fault) ==
    IF fault = "open" THEN [fs |-> f, err |-> "EIO"]
    ELSE IF OpenErr(f, su, src) # "nil" THEN [fs |-> f, err |-> OpenErr(f, su, src)]
    ELSE IF fault = "create" THEN [fs |-> f, err |-> "EIO"]
    ELSE LET o == OpenTrunc(f, su, um, dst, f[src].mode)
         IN  IF o.err # "nil" THEN o
             ELSE IF o.fs[src].dir THEN [fs |-> o.fs, err |-> "EISDIR"]
             ELSE IF fault = "copy" THEN [fs |-> o.fs, err |-> "EIO"]
             ELSE [fs |-> Put(o.fs, dst, [o.fs[dst] EXCEPT !.data = o.fs[src].data]),
                   err |-> "nil"]

---------------------------------------------------------------------------
(* copyDir, one stack frame per call.  A frame is at "enter" before its     *)
(* stat/mkdir/readdir, at "loop" between two entries, and at "call" while   *)
(* the recursive call it made for the entry at the head of entries runs.    *)

Frame(src, dst) == [src |-> src, dst |-> dst, pc |-> "enter", entries |-> <<>>]

Top == stack[Len(stack)]
Pop == SubSeq(stack, 1, Len(stack) - 1)
SetTop(fr) == [stack EXCEPT ![Len(stack)] = fr]

\* whether an I/O fault may be injected in this step
Inject(fault) == fault = "none" \/ faults < MaxFaults
Injected(fault) == IF fault = "none" THEN faults ELSE faults + 1

\* the frame returns err: `return err`
Fail(f, err, ops) ==
    /\ fs' = f
    /\ stack' = Pop
    /\ ret' = err
    /\ firstErr' = err
    /\ errDepth' = Len(stack)
    /\ nio' = nio + ops

\* lines 227-242: os.Stat(src), os.MkdirAll(dst, srcInfo.Mode()), os.ReadDir(src)
CopyDirEnter ==
    /\ stack # <<>> /\ Top.pc = "enter"
    /\ Len(Top.dst) <= MaxDepth     \* exploration bound, not a condition of the code
    /\ \E fault \in {"none", "stat", "mkdir", "readdir"} :
        /\ Inject(fault)
        /\ faults' = Injected(fault)
        /\ calls' = calls + 1
        /\ LET st == IF fault = "stat" THEN "EIO" ELSE LookupErr(fs, superuser, Top.src)
           IN  IF st # "nil" THEN Fail(fs, st, 1)
               ELSE LET mk == IF fault = "mkdir" THEN [fs |-> fs, err |-> "EIO"]
                              ELSE MkdirAll(fs, superuser, umask, Top.dst, fs[Top.src].mode)
                    IN  IF mk.err # "nil" THEN Fail(mk.fs, mk.err, 2)
                        ELSE LET rd == IF fault = "readdir" THEN [entries |-> <<>>, err |-> "EIO"]
                                       ELSE ReadDir(mk.fs, superuser, Top.src)
                             IN  IF rd.err # "nil" THEN Fail(mk.fs, rd.err, 3)
                                 ELSE /\ fs' = mk.fs
                                      /\ stack' = SetTop([Top EXCEPT !.pc = "loop",
                                                                     !.entries = rd.entries])
                                      /\ nio' = nio + 3
                                      /\ UNCHANGED <<ret, firstErr, errDepth>>
    /\ UNCHANGED <<superuser, umask, testVars, rwVars>>
    /\ UNCHANGED <<pc, pkg, output, moduleOnly, modName, deps, di, copied, attempts, exitCode, trace>>

\* lines 244-263: one entry of the listing
CopyDirEntry ==
    /\ stack # <<>> /\ Top.pc = "loop" /\ Top.entries # <<>>
    /\ LET entry == Head(Top.entries)
           srcPath == Append(Top.src, entry.name)
           dstPath == Append(Top.dst, entry.name)
           next == [Top EXCEPT !.entries = Tail(Top.entries)]
       IN  IF entry.isDir
           THEN /\ IF shouldSkipDir(entry.name)
                   THEN stack' = SetTop(next)
                   ELSE stack' = Append(SetTop([Top EXCEPT !.pc = "call"]),
                                        Frame(srcPath, dstPath))
                /\ UNCHANGED <<fs, ret, calls, nio, firstErr, errDepth, faults>>
           ELSE IF shouldCopyFile(entry.name)
           THEN \E fault \in {"none", "open", "create", "copy"} :
                   /\ Inject(fault)
                   /\ faults' = Injected(fault)
                   /\ LET c == copyFile(fs, superuser, umask, srcPath, dstPath, fault)
                      IN  IF c.err # "nil" THEN Fail(c.fs, c.err, 1)
                          ELSE /\ fs' = c.fs
                               /\ stack' = SetTop(next)
                               /\ nio' = nio + 1
                               /\ UNCHANGED <<ret, firstErr, errDepth>>
                   /\ UNCHANGED calls
           ELSE /\ stack' = SetTop(next)
                /\ UNCHANGED <<fs, ret, calls, nio, firstErr, errDepth, faults>>
    /\ UNCHANGED <<superuser, umask, testVars, rwVars>>
    /\ UNCHANGED <<pc, pkg, output, moduleOnly, modName, deps, di, copied, attempts, exitCode, trace>>

ChildFailedIgnored(r) == FALSE

\* lines 253-255: `if err := copyDir(srcPath, dstPath); err != nil`
ChildFailed(r) == r # "nil"

\* the recursive call returned: `return err`, or on to the next entry
CopyDirAfterCall ==
    /\ stack # <<>> /\ Top.pc = "call" /\ ret # "none"
    /\ IF ChildFailed(ret)
       THEN /\ stack' = Pop
            /\ UNCHANGED ret
       ELSE /\ stack' = SetTop([Top EXCEPT !.pc = "loop", !.entries = Tail(Top.entries)])
            /\ ret' = "none"
    /\ UNCHANGED <<fs, superuser, umask, calls, nio, firstErr, errDepth, testVars, rwVars, mainVars>>

\* line 266: `return nil`
CopyDirReturn ==
    /\ stack # <<>> /\ Top.pc = "loop" /\ Top.entries = <<>>
    /\ stack' = Pop
    /\ ret' = "nil"
    /\ UNCHANGED <<fs, superuser, umask, calls, nio, firstErr, errDepth, testVars, rwVars, mainVars>>

\* a caller starts copyDir(src, dst)
StartCopy(src, dst) ==
    /\ stack' = <<Frame(src, dst)>>
    /\ ret' = "none"
    /\ calls' = 0
    /\ nio' = 0
    /\ firstErr' = "nil"
    /\ errDepth' = 0

---------------------------------------------------------------------------
(* Tree copier scenarios: copyDir(src0, dst0) on a source tree under /s,    *)
(* then once more over the result, as the copy loop does for a dependency   *)
(* listed twice.                                                            *)

NameS == <<"s">>
NameD == <<"d">>
NameO == <<"o">>
NameP == <<"p">>
AGo == <<"a",".","g","o">>
ATestGo == <<"a","_","t","e","s","t",".","g","o">>
BGo == <<"b",".","g","o">>
VGo == <<"v",".","g","o">>
NTxt == <<"n",".","t","x","t">>
License == <<"L","I","C","E","N","S","E">>
Vendor == <<"v","e","n","d","o","r">>
XTest == <<"x","_","t","e","s","t">>
DotGit == <<".","g","i","t">>
Testdata == <<"t","e","s","t","d","a","t","a">>
Protest == <<"p","r","o","t","e","s","t">>

\* the files directly in the source directory
TopFileSets == { {}, {AGo}, {AGo, ATestGo, NTxt, VGo}, {License, NTxt, GoMod} }
\* a traversed subdirectory: absent, empty, or holding files
SubDirSets == { [dirs |-> {}, files |-> {}],
                [dirs |-> {<<NameP>>}, files |-> {}],
                [dirs |-> {<<NameP>>}, files |-> {<<NameP, BGo>>, <<NameP, ATestGo>>}],
                [dirs |-> {<<Protest>>}, files |-> {<<Protest, BGo>>}] }
\* a skipped subdirectory holding a file that would otherwise be copied
SkipDirSets == { [dirs |-> {}, files |-> {}] }
                 \cup { [dirs |-> {<<n>>}, files |-> {<<n, VGo>>}] :
                          n \in {Vendor, XTest, DotGit, Testdata} }

FileModes == {Mode0644, Mode0444}
DirModes == {Mode0755, Mode0555}

\* the file system holding, under the directory at base, the directories
\* dirs (mode dmode) and the files files (mode fmode, each holding its own
\* name), beside the directories of extra
TreeFs(base, dirs, files, fmode, dmode, extra) ==
    LET paths == {<<>>} \cup {base} \cup {base \o r : r \in dirs \cup files} \cup extra
    IN  [p \in paths |->
            IF p = <<>> \/ p \in extra THEN DirNode(Mode0755)
            ELSE IF p = base \/ (\E r \in dirs : p = base \o r) THEN DirNode(dmode)
            ELSE FileNode(fmode, Base(p))]

MainIdle ==
    /\ pkg = TRUE /\ output = TRUE /\ moduleOnly = TRUE /\ modName = <<>>
    /\ deps = <<>> /\ di = 0 /\ copied = 0 /\ attempts = <<>>
    /\ exitCode = -1 /\ trace = <<>> /\ faults = 0

RwIdle ==
    /\ walk = <<>> /\ oldModule = <<>> /\ newModule = <<>> /\ rwRet = "none" /\ writes = 0

InitCopy ==
    /\ pc = "copytest"
    /\ superuser \in BOOLEAN
    /\ umask \in {Umask022, Umask077}
    /\ \E top \in TopFileSets, sub \in SubDirSets, skp \in SkipDirSets,
          fmode \in FileModes, dmode \in DirModes :
        \E dst \in { <<NameD>>, <<NameS, NameO>>, <<NameS, Vendor, NameO>> } :
            \E extra \in IF dst = <<NameD>> THEN { {}, {dst} } ELSE { {} } :
                /\ fs = TreeFs(<<NameS>>, sub.dirs \cup skp.dirs,
                               {<<n>> : n \in top} \cup sub.files \cup skp.files,
                               fmode, dmode, extra)
                /\ src0 = <<NameS>>
                /\ dst0 = dst
    /\ stack = <<Frame(src0, dst0)>>
    /\ ret = "none" /\ calls = 0 /\ nio = 0 /\ firstErr = "nil" /\ errDepth = 0
    /\ run = 1 /\ fs0 = fs /\ fs1 = fs
    /\ RwIdle
    /\ MainIdle

\* the first copy succeeded; the same copy is made again (main.go:103, for a
\* dependency that occurs twice in deps)
CopyAgain ==
    /\ pc = "copytest" /\ run = 1 /\ stack = <<>> /\ ret = "nil"
    /\ run' = 2
    /\ fs1' = fs
    /\ StartCopy(src0, dst0)
    /\ UNCHANGED <<fs, superuser, umask, fs0, src0, dst0, rwVars, mainVars>>

NextCopy == CopyDirEnter \/ CopyDirEntry \/ CopyDirAfterCall \/ CopyDirReturn \/ CopyAgain

SpecCopy == InitCopy /\ [][NextCopy]_vars

---------------------------------------------------------------------------
(* replaceModuleInFiles: filepath.Walk visits dir and everything below it,  *)
(* a directory before its entries, the entries by name.  The rewrite only   *)
(* changes file contents, so the paths to visit are those present when the  *)
(* walk starts.                                                             *)

RECURSIVE Flatten(_)
Flatten(ss) == IF ss = <<>> THEN <<>> ELSE Head(ss) \o Flatten(Tail(ss))

RECURSIVE WalkOrder(_, _)
WalkOrder(f, p) ==
    IF p \notin DOMAIN f \/ ~f[p].dir THEN <<p>>
    ELSE LET names == SortNames({Base(q) : q \in {q \in DOMAIN f :
                                     Len(q) = Len(p) + 1 /\ Parent(q) = p}})
         IN  <<p>> \o Flatten([k \in 1..Len(names) |-> WalkOrder(f, Append(p, names[k]))])

isRewriteTargetGoOnly(name) == HasSuffix(name, DotGo)

\* line 312: `!strings.HasSuffix(name, ".go") && name != "go.mod"` negated
isRewriteTarget(name) == HasSuffix(name, DotGo) \/ name = GoMod

mustWriteAlways(content, newContent) == TRUE

\* line 326: `if newContent != string(content)`
mustWrite(content, newContent) == newContent # content

\* os.WriteFile(path, data, perm); a fault strikes after the file was truncated
WriteFile(f, su, um, p, data, perm, fault) ==
    LET o == OpenTrunc(f, su, um, p, perm)
    IN  IF o.err # "nil" THEN o
        ELSE IF fault = "write" THEN [fs |-> o.fs, err |-> "EIO"]
        ELSE [fs |-> Put(o.fs, p, [o.fs[p] EXCEPT !.data = data]), err |-> "nil"]

\* a caller starts replaceModuleInFiles(dir, old, new)
StartRewrite(dir, old, new) ==
    /\ walk' = WalkOrder(fs, dir)
    /\ oldModule' = old
    /\ newModule' = new
    /\ rwRet' = "none"
    /\ writes' = 0

\* lines 301-333: the callback on the next path of the walk
RewriteVisit ==
    /\ rwRet = "none" /\ walk # <<>> /\ pc \in {"rwtest", "rewriting"}
    /\ LET path == Head(walk)
       IN  \E fault \in {"none", "walk", "read", "write"} :
            /\ Inject(fault)
            /\ faults' = Injected(fault)
            /\ LET lst == IF fault = "walk" THEN "EIO" ELSE LookupErr(fs, superuser, path)
               IN  IF lst # "nil"
                   THEN /\ rwRet' = lst
                        /\ UNCHANGED <<fs, walk, writes>>
                   ELSE IF fs[path].dir
                   THEN /\ IF ReadDir(fs, superuser, path).err # "nil"
                           THEN rwRet' = ReadDir(fs, superuser, path).err /\ UNCHANGED walk
                           ELSE walk' = Tail(walk) /\ UNCHANGED rwRet
                        /\ UNCHANGED <<fs, writes>>
                   ELSE IF ~isRewriteTarget(Base(path))
                   THEN /\ walk' = Tail(walk)
                        /\ UNCHANGED <<fs, rwRet, writes>>
                   ELSE LET rd == IF fault = "read" THEN "EIO" ELSE OpenErr(fs, superuser, path)
                        IN  IF rd # "nil"
                            THEN /\ rwRet' = rd
                                 /\ UNCHANGED <<fs, walk, writes>>
                            ELSE LET content == fs[path].data
                                     newContent == ReplaceAll(content, oldModule, newModule)
                                 IN  IF mustWrite(content, newContent)
                                     THEN LET w == WriteFile(fs, superuser, umask, path, newContent,
                                                             fs[path].mode, fault)
                                          IN  /\ fs' = w.fs
                                              /\ writes' = writes + 1
                                              /\ IF w.err # "nil"
                                                 THEN rwRet' = w.err /\ UNCHANGED walk
                                                 ELSE walk' = Tail(walk) /\ UNCHANGED rwRet
                                     ELSE /\ walk' = Tail(walk)
                                          /\ UNCHANGED <<fs, rwRet, writes>>
    /\ UNCHANGED <<superuser, umask, copyVars, testVars, oldModule, newModule>>
    /\ UNCHANGED <<pc, pkg, output, moduleOnly, modName, deps, di, copied, attempts, exitCode, trace>>

\* filepath.Walk is through: replaceModuleInFiles returns nil
RewriteReturn ==
    /\ rwRet = "none" /\ walk = <<>> /\ pc \in {"rwtest", "rewriting"}
    /\ rwRet' = "nil"
    /\ UNCHANGED <<fs, superuser, umask, copyVars, testVars, walk, oldModule, newModule, writes, mainVars>>

---------------------------------------------------------------------------
(* Module rewriter scenarios: replaceModuleInFiles(/w, old, new) over       *)
(* /w/go.mod, /w/n.txt and /w/q/b.go, then once more with the same pair.    *)

NameW == <<"w">>
NameQ == <<"q">>

\* all strings over alphabet of length lo..hi
StringsOver(alphabet, lo, hi) == UNION {[1..n -> alphabet] : n \in lo..hi}

Contents == StringsOver({"a", "b"}, 0, MaxLen)
OldModules == StringsOver({"a", "b"}, 1, MaxModLen)
NewModules == StringsOver({"a", "b"}, 0, MaxModLen)

CopyIdle ==
    /\ stack = <<>> /\ ret = "none" /\ calls = 0 /\ nio = 0
    /\ firstErr = "nil" /\ errDepth = 0

InitRewrite ==
    /\ pc = "rwtest"
    /\ \E c \in Contents, fmode \in FileModes, su \in BOOLEAN :
        /\ (su => fmode = Mode0444)
        /\ superuser = su
        /\ umask \in {Umask022, Umask077}
        /\ fs = [p \in {<<>>, <<NameW>>, <<NameW, GoMod>>, <<NameW, NTxt>>,
                        <<NameW, NameQ>>, <<NameW, NameQ, BGo>>} |->
                    IF p \in {<<>>, <<NameW>>, <<NameW, NameQ>>} THEN DirNode(Mode0755)
                    ELSE IF p = <<NameW, NameQ, BGo>> THEN FileNode(fmode, c \o c)
                    ELSE FileNode(fmode, c)]
    /\ src0 = <<NameW>> /\ dst0 = <<>>
    /\ oldModule \in OldModules
    /\ newModule \in NewModules
    /\ walk = WalkOrder(fs, src0)
    /\ rwRet = "none" /\ writes = 0
    /\ run = 1 /\ fs0 = fs /\ fs1 = fs
    /\ CopyIdle
    /\ MainIdle

\* the first rewrite succeeded; the same rewrite is run again
RewriteAgain ==
    /\ pc = "rwtest" /\ run = 1 /\ rwRet = "nil"
    /\ run' = 2
    /\ fs1' = fs
    /\ StartRewrite(src0, oldModule, newModule)
    /\ UNCHANGED <<fs, superuser, umask, copyVars, fs0, src0, dst0, mainVars>>

NextRewrite == RewriteVisit \/ RewriteReturn \/ RewriteAgain

SpecRewrite == InitRewrite /\ [][NextRewrite]_vars

---------------------------------------------------------------------------
(* main: the pipeline.  The module is "m", rooted at /m; -o is /o.  The      *)
(* external tools (go list, goda, go mod tidy) succeed or fail as the        *)
(* environment decides; a successful go mod tidy may rewrite go.mod and      *)
(* write go.sum in the output directory.                                     *)

ModulePath == <<"m">>
ModuleDir == << <<"m">> >>
OutputDir == << <<"o">> >>
NewName == <<"n">>

DepRoot == <<"m">>
DepSub == <<"m", "/", "p">>
DepSibling == <<"m", "x">>
DepExternal == <<"e", "/", "q">>
DepPool == {DepRoot, DepSub, DepSibling, DepExternal}
DepLists == UNION {[1..n -> DepPool] : n \in 0..MaxDeps}

\* the components of a slash-separated path, empty ones dropped (what
\* filepath.Join keeps of an element that holds no "." or ".." component)
RECURSIVE SplitPath(_)
SplitPath(s) ==
    IF s = <<>> THEN <<>>
    ELSE LET k == Index(s, <<"/">>)
         IN  IF k = 0 THEN <<s>>
             ELSE IF k = 1 THEN SplitPath(Tail(s))
             ELSE <<SubSeq(s, 1, k - 1)>> \o SplitPath(SubSeq(s, k + 1, Len(s)))

\* filepath.Join(dir, rel)
Join(dir, rel) == dir \o SplitPath(rel)

\* line 85: `strings.HasPrefix(dep, modulePath)`; -module-only is not consulted
isInModule(dep, modulePath) == HasPrefix(dep, modulePath)

relPathUntrimmed(dep, modulePath) == TrimPrefix(dep, modulePath)

\* lines 93-94
relPath(dep, modulePath) == TrimPrefix(TrimPrefix(dep, modulePath), <<"/">>)

Step(name, ok) == [step |-> name, ok |-> ok]

\* os.Exit(code)
Exit(code) == pc' = "done" /\ exitCode' = code

\* os.Exit(1)
Exit1 == Exit(1)

InitMain ==
    /\ pc = "parse"
    /\ \/ /\ pkg = TRUE /\ output = TRUE
          /\ moduleOnly \in BOOLEAN
          /\ modName \in {<<>>, NewName}
          /\ deps \in DepLists
       \/ /\ \E given \in {<<FALSE, TRUE>>, <<TRUE, FALSE>>, <<FALSE, FALSE>>} :
                pkg = given[1] /\ output = given[2]
          /\ moduleOnly = TRUE /\ modName = <<>> /\ deps = <<DepSub>>
    /\ superuser = FALSE
    /\ umask \in {Umask022, Umask077}
    /\ fs = [p \in {<<>>, ModuleDir, Append(ModuleDir, GoMod), Append(ModuleDir, AGo),
                    Append(ModuleDir, NameP), ModuleDir \o <<NameP, BGo>>} |->
                IF p \in {<<>>, ModuleDir, Append(ModuleDir, NameP)} THEN DirNode(Mode0755)
                ELSE IF Base(p) = BGo THEN FileNode(Mode0644, ModulePath)
                ELSE FileNode(Mode0644, DepSub)]
    /\ di = 1 /\ copied = 0 /\ attempts = <<>> /\ exitCode = -1 /\ trace = <<>> /\ faults = 0
    /\ run = 1 /\ fs0 = fs /\ fs1 = fs /\ src0 = <<>> /\ dst0 = <<>>
    /\ CopyIdle
    /\ RwIdle

\* line 21: flag.Parse() on the default flag set (flag.ExitOnError): a command
\* line it cannot parse (undefined flag, bad value) ends the process with
\* code 2, -h / -help ends it with code 0
MainParse ==
    /\ pc = "parse"
    /\ \E cmdline \in {"ok", "bad", "help"} :
        /\ trace' = Append(trace, Step("parse", cmdline = "ok"))
        /\ IF cmdline = "bad" THEN Exit(2)
           ELSE IF cmdline = "help" THEN Exit(0)
           ELSE pc' = "flags" /\ UNCHANGED exitCode
    /\ UNCHANGED <<fs, superuser, umask, copyVars, testVars, rwVars>>
    /\ UNCHANGED <<pkg, output, moduleOnly, modName, deps, di, copied, attempts, faults>>

\* lines 23-30
MainFlags ==
    /\ pc = "flags"
    /\ trace' = Append(trace, Step("flags", pkg /\ output))
    /\ IF ~pkg \/ ~output THEN Exit1 ELSE pc' = "modinfo" /\ UNCHANGED exitCode
    /\ UNCHANGED <<fs, superuser, umask, copyVars, testVars, rwVars>>
    /\ UNCHANGED <<pkg, output, moduleOnly, modName, deps, di, copied, attempts, faults>>

\* lines 33-38: getModuleInfo
MainModuleInfo ==
    /\ pc = "modinfo"
    /\ \E ok \in BOOLEAN :
        /\ trace' = Append(trace, Step("modinfo", ok))
        /\ IF ~ok THEN Exit1 ELSE pc' = "goda" /\ UNCHANGED exitCode
    /\ UNCHANGED <<fs, superuser, umask, copyVars, testVars, rwVars>>
    /\ UNCHANGED <<pkg, output, moduleOnly, modName, deps, di, copied, attempts, faults>>

\* lines 56-66: runGoda, then the check for an empty result
MainGoda ==
    /\ pc = "goda"
    /\ \E ok \in BOOLEAN :
        IF ~ok
        THEN trace' = Append(trace, Step("goda", FALSE)) /\ Exit1
        ELSE IF Len(deps) = 0
        THEN trace' = trace \o <<Step("goda", TRUE), Step("nonempty", FALSE)>> /\ Exit1
        ELSE /\ trace' = trace \o <<Step("goda", TRUE), Step("nonempty", TRUE)>>
             /\ pc' = "mkdir" /\ UNCHANGED exitCode
    /\ UNCHANGED <<fs, superuser, umask, copyVars, testVars, rwVars>>
    /\ UNCHANGED <<pkg, output, moduleOnly, modName, deps, di, copied, attempts, faults>>

\* lines 76-79: os.MkdirAll(*output, 0755)
MainMkdir ==
    /\ pc = "mkdir"
    /\ \E fault \in {"none", "mkdir"} :
        /\ Inject(fault)
        /\ faults' = Injected(fault)
        /\ LET mk == IF fault = "mkdir" THEN [fs |-> fs, err |-> "EIO"]
                     ELSE MkdirAll(fs, superuser, umask, OutputDir, Mode0755)
           IN  /\ fs' = mk.fs
               /\ trace' = Append(trace, Step("mkdir", mk.err = "nil"))
               /\ IF mk.err # "nil" THEN Exit1 ELSE pc' = "loop" /\ UNCHANGED exitCode
    /\ UNCHANGED <<superuser, umask, copyVars, testVars, rwVars>>
    /\ UNCHANGED <<pkg, output, moduleOnly, modName, deps, di, copied, attempts>>

\* lines 83-103: the next dependency: skipped, or copyDir(srcDir, dstDir) called
MainLoop ==
    /\ pc = "loop" /\ di <= Len(deps)
    /\ IF ~isInModule(deps[di], ModulePath)
       THEN /\ di' = di + 1
            /\ UNCHANGED <<pc, copyVars>>
       ELSE /\ StartCopy(Join(ModuleDir, relPath(deps[di], ModulePath)),
                         Join(OutputDir, relPath(deps[di], ModulePath)))
            /\ pc' = "copying"
            /\ UNCHANGED di
    /\ UNCHANGED <<fs, superuser, umask, testVars, rwVars>>
    /\ UNCHANGED <<pkg, output, moduleOnly, modName, deps, copied, attempts, exitCode, trace, faults>>

MainCopyReturnBreak ==
    /\ pc = "copying" /\ stack = <<>> /\ ret # "none"
    /\ attempts' = Append(attempts, [dep |-> deps[di],
                                     rel |-> relPath(deps[di], ModulePath),
                                     src |-> Join(ModuleDir, relPath(deps[di], ModulePath)),
                                     dst |-> Join(OutputDir, relPath(deps[di], ModulePath)),
                                     err |-> ret])
    /\ trace' = Append(trace, Step("copy", ret = "nil"))
    /\ copied' = IF ret = "nil" THEN copied + 1 ELSE copied
    /\ di' = IF ret = "nil" THEN di + 1 ELSE Len(deps) + 1
    /\ ret' = "none"
    /\ pc' = "loop"
    /\ UNCHANGED <<fs, superuser, umask, stack, calls, nio, firstErr, errDepth, testVars, rwVars>>
    /\ UNCHANGED <<pkg, output, moduleOnly, modName, deps, exitCode, faults>>

\* lines 103-107: copyDir returned: an error is reported and the loop goes on,
\* success is counted
MainCopyReturn ==
    /\ pc = "copying" /\ stack = <<>> /\ ret # "none"
    /\ attempts' = Append(attempts, [dep |-> deps[di],
                                     rel |-> relPath(deps[di], ModulePath),
                                     src |-> Join(ModuleDir, relPath(deps[di], ModulePath)),
                                     dst |-> Join(OutputDir, relPath(deps[di], ModulePath)),
                                     err |-> ret])
    /\ trace' = Append(trace, Step("copy", ret = "nil"))
    /\ copied' = IF ret = "nil" THEN copied + 1 ELSE copied
    /\ di' = di + 1
    /\ ret' = "none"
    /\ pc' = "loop"
    /\ UNCHANGED <<fs, superuser, umask, stack, calls, nio, firstErr, errDepth, testVars, rwVars>>
    /\ UNCHANGED <<pkg, output, moduleOnly, modName, deps, exitCode, faults>>

\* lines 116-122 for one of go.mod, go.sum: copied when os.Stat finds it
CopyAux(f, name, fault) ==
    IF LookupErr(f, superuser, Append(ModuleDir, name)) # "nil" THEN [fs |-> f, err |-> "nil"]
    ELSE copyFile(f, superuser, umask, Append(ModuleDir, name), Append(OutputDir, name), fault)

\* lines 110-123: the loop is over; go.mod and go.sum
MainAux ==
    /\ pc = "loop" /\ di > Len(deps)
    /\ \E f1, f2 \in {"none", "open", "create", "copy"} :
        LET n == (IF f1 = "none" THEN 0 ELSE 1) + (IF f2 = "none" THEN 0 ELSE 1)
            c1 == CopyAux(fs, GoMod, f1)
            c2 == CopyAux(c1.fs, GoSum, f2)
        IN  /\ faults + n <= MaxFaults
            /\ faults' = faults + n
            /\ fs' = c2.fs
            /\ trace' = Append(trace, Step("aux", c1.err = "nil" /\ c2.err = "nil"))
    /\ pc' = "rewrite"
    /\ UNCHANGED <<superuser, umask, copyVars, testVars, rwVars>>
    /\ UNCHANGED <<pkg, output, moduleOnly, modName, deps, di, copied, attempts, exitCode>>

\* lines 126-130: replaceModuleInFiles is called when -mod was given
MainRewrite ==
    /\ pc = "rewrite"
    /\ IF modName # <<>>
       THEN /\ StartRewrite(OutputDir, ModulePath, modName)
            /\ pc' = "rewriting"
       ELSE /\ pc' = "tidy"
            /\ UNCHANGED rwVars
    /\ UNCHANGED <<fs, superuser, umask, copyVars, testVars>>
    /\ UNCHANGED <<pkg, output, moduleOnly, modName, deps, di, copied, attempts, exitCode, trace, faults>>

MainRewriteReturnWarnOnly ==
    /\ pc = "rewriting" /\ rwRet # "none"
    /\ trace' = Append(trace, Step("rewrite", rwRet = "nil"))
    /\ pc' = "tidy" /\ UNCHANGED exitCode
    /\ rwRet' = "none"
    /\ UNCHANGED <<fs, superuser, umask, copyVars, testVars, walk, oldModule, newModule, writes>>
    /\ UNCHANGED <<pkg, output, moduleOnly, modName, deps, di, copied, attempts, faults>>

\* lines 130-134: replaceModuleInFiles returned
MainRewriteReturn ==
    /\ pc = "rewriting" /\ rwRet # "none"
    /\ trace' = Append(trace, Step("rewrite", rwRet = "nil"))
    /\ IF rwRet # "nil" THEN Exit1 ELSE pc' = "tidy" /\ UNCHANGED exitCode
    /\ rwRet' = "none"
    /\ UNCHANGED <<fs, superuser, umask, copyVars, testVars, walk, oldModule, newModule, writes>>
    /\ UNCHANGED <<pkg, output, moduleOnly, modName, deps, di, copied, attempts, faults>>

\* what a successful `go mod tidy` may leave in go.mod (the requirements
\* rewritten) and in go.sum; the tool is outside the repository, its output is
\* one of a few stand-in contents
TidyGoMod(data) == Append(data, "r")
TidyGoSum == <<"h">>

\* the file systems a successful `go mod tidy` run in dir may leave: go.mod kept
\* or rewritten, go.sum left alone or written
TidyOutcomes(f, um, dir) ==
    LET gm == Append(dir, GoMod)
        gs == Append(dir, GoSum)
        mods == {f, Put(f, gm, [f[gm] EXCEPT !.data = TidyGoMod(f[gm].data)])}
    IN  mods \cup {Put(g, gs, FileNode(IF gs \in DOMAIN g THEN g[gs].mode
                                       ELSE AndNot(Mode0666, um),
                                       TidyGoSum)) : g \in mods}

\* lines 142-155: go mod tidy in the output directory (it succeeds only where
\* there is a go.mod; its failure is a warning), then the end of main
MainTidy ==
    /\ pc = "tidy"
    /\ \E ok \in BOOLEAN :
        /\ trace' = Append(trace, Step("tidy", ok))
        /\ IF ok
           THEN /\ LookupErr(fs, superuser, Append(OutputDir, GoMod)) = "nil"
                /\ fs' \in TidyOutcomes(fs, umask, OutputDir)
           ELSE UNCHANGED fs
    /\ Exit(0)
    /\ UNCHANGED <<superuser, umask, copyVars, testVars, rwVars>>
    /\ UNCHANGED <<pkg, output, moduleOnly, modName, deps, di, copied, attempts, faults>>

NextMain ==
    \/ MainParse \/ MainFlags \/ MainModuleInfo \/ MainGoda \/ MainMkdir
    \/ MainLoop \/ MainCopyReturn \/ MainAux
    \/ MainRewrite \/ MainRewriteReturn \/ MainTidy
    \/ CopyDirEnter \/ CopyDirEntry \/ CopyDirAfterCall \/ CopyDirReturn
    \/ RewriteVisit \/ RewriteReturn

Spec == InitMain /\ [][NextMain]_vars

---------------------------------------------------------------------------
(* Tree copier claims. *)

\* the first copyDir(src0, dst0) of a scenario has returned
CopyDone == pc = "copytest" /\ run = 1 /\ stack = <<>> /\ ret # "none"
\* the second one has
SecondCopyDone == pc = "copytest" /\ run = 2 /\ stack = <<>> /\ ret # "none"

\* the files of file system f under directory d, as relative path -> content
FilesUnder(f, d) ==
    LET ps == {p \in DOMAIN f : IsUnder(p, d) /\ ~f[p].dir}
    IN  {<<SubSeq(p, Len(d) + 1, Len(p)), f[p].data>> : p \in ps}

\* the filter as the specification words it
KeptFileName(n) ==
    \/ HasSuffix(n, <<".","g","o">>) /\ ~HasSuffix(n, <<"_","t","e","s","t",".","g","o">>)
    \/ n \in { <<"g","o",".","m","o","d">>, <<"g","o",".","s","u","m">>,
               <<"L","I","C","E","N","S","E">>, <<"R","E","A","D","M","E",".","m","d">> }
SkippedDirName(n) ==
    \E s \in { <<"t","e","s","t","d","a","t","a">>, <<"v","e","n","d","o","r">>,
               <<".","g","i","t">>, <<"_","t","e","s","t">> } : n = s \/ HasSuffix(n, s)
KeptRel(r) ==
    /\ KeptFileName(r[Len(r)])
    /\ \A k \in 1..(Len(r) - 1) : ~SkippedDirName(r[k])

\* C1: after copyDir(src, dst) returns nil into an initially empty dst, the files
\* under dst are exactly the files of src whose name passes shouldCopyFile and
\* that have no ancestor below src passing shouldSkipDir, each with the content
\* of its source, at the same relative path.
C1_CopyExact ==
    (CopyDone /\ ret = "nil" /\ FilesUnder(fs0, dst0) = {}
        /\ \A p \in DOMAIN fs0 : ~IsUnder(p, dst0))
    => FilesUnder(fs, dst0) = {e \in FilesUnder(fs0, src0) : KeptRel(e[1])}

C1_Witness ==
    /\ CopyDone /\ ret = "nil"
    /\ \A p \in DOMAIN fs0 : ~IsUnder(p, dst0)
    /\ <<NameS, ATestGo>> \in DOMAIN fs0
    /\ <<NameS, Vendor, VGo>> \in DOMAIN fs0
    /\ <<NameS, NameP, BGo>> \in DOMAIN fs0
    /\ Append(dst0, AGo) \in DOMAIN fs
    /\ dst0 \o <<NameP, BGo>> \in DOMAIN fs

\* C5: the first error inside a copyDir invocation is what the invocation
\* returns, and from the error on the invocation neither changes the file
\* system nor issues another file-system operation.
C5_FailFast ==
    /\ [](pc = "copytest" /\ stack = <<>> /\ ret # "none" => ret = firstErr)
    /\ [][(pc = "copytest" /\ firstErr # "nil" /\ run' = run)
            => (fs' = fs /\ nio' = nio /\ calls' = calls)]_vars

C5_Witness ==
    /\ CopyDone /\ ret # "nil" /\ errDepth = 2
    /\ <<NameS, VGo>> \in DOMAIN fs0
    /\ Append(dst0, AGo) \in DOMAIN fs
    /\ Append(dst0, VGo) \notin DOMAIN fs

\* C9: when the first copyDir(src, dst) returned nil, a second one over the
\* unchanged source returns nil too and leaves dst as the first one left it
\* (no I/O fault injected).
C9_SecondCopySucceeds ==
    (SecondCopyDone /\ faults = 0)
    => (ret = "nil" /\ FilesUnder(fs, dst0) = FilesUnder(fs1, dst0))

\* C10: directories the invocation creates under dst are never traversed as
\* source entries: every copyDir call is for a directory of the source as it
\* was when the invocation started, and there are at most as many calls as
\* such directories.
C10_CallsBounded ==
    (pc = "copytest" /\ run = 1)
    => /\ \A k \in 1..Len(stack) : stack[k].src \in DOMAIN fs0
       /\ calls <= Cardinality({p \in DOMAIN fs0 :
                                   (p = src0 \/ IsUnder(p, src0)) /\ fs0[p].dir})

---------------------------------------------------------------------------
(* Module rewriter claims. *)

RewriteDone == pc = "rwtest" /\ run = 1 /\ rwRet # "none"
SecondRewriteDone == pc = "rwtest" /\ run = 2 /\ rwRet # "none"

\* s with every occurrence of old (non-empty) replaced by new, scanning from
\* the left and resuming after each occurrence
RECURSIVE Replaced(_, _, _)
Replaced(s, old, new) ==
    IF Len(s) < Len(old) THEN s
    ELSE IF SubSeq(s, 1, Len(old)) = old
    THEN new \o Replaced(SubSeq(s, Len(old) + 1, Len(s)), old, new)
    ELSE <<Head(s)>> \o Replaced(Tail(s), old, new)

Occurs(s, sub) == \E k \in 1..(Len(s) - Len(sub) + 1) : SubSeq(s, k, k + Len(sub) - 1) = sub

TargetFiles(f) ==
    {p \in DOMAIN f : ~f[p].dir /\ IsUnder(p, src0)
        /\ (HasSuffix(Base(p), <<".","g","o">>) \/ Base(p) = <<"g","o",".","m","o","d">>)}

\* C2: after replaceModuleInFiles returns nil, every file under dir named *.go
\* or go.mod holds its original content with every non-overlapping occurrence
\* of oldModule, scanned left to right, replaced by newModule; every other
\* file holds its original content.
C2_RewriteExact ==
    (RewriteDone /\ rwRet = "nil")
    => /\ DOMAIN fs = DOMAIN fs0
       /\ \A p \in DOMAIN fs0 :
            fs[p] = IF p \in TargetFiles(fs0)
                    THEN [fs0[p] EXCEPT !.data = Replaced(fs0[p].data, oldModule, newModule)]
                    ELSE fs0[p]

C2_Witness ==
    /\ RewriteDone /\ rwRet = "nil"
    /\ Occurs(fs0[<<NameW, NTxt>>].data, oldModule)
    /\ fs[<<NameW, GoMod>>].data # fs0[<<NameW, GoMod>>].data
    /\ Count(fs0[<<NameW, NameQ, BGo>>].data, oldModule) >= 2
    /\ Occurs(fs[<<NameW, NameQ, BGo>>].data, newModule)
    /\ newModule # <<>>

\* C3 as claimed: for every pair the second run is a no-op: after the first
\* run no target file contains oldModule, and the second run changes nothing
\* and writes nothing (no I/O fault injected).
C3_SecondRunNoOp ==
    (SecondRewriteDone /\ faults = 0)
    => /\ \A p \in TargetFiles(fs1) : ~Occurs(fs1[p].data, oldModule)
       /\ rwRet = "nil" /\ fs = fs1 /\ writes = 0

\* C3 amended: when after the first run no target file contains oldModule,
\* the second run returns nil, changes nothing and writes nothing.
C3_NoOpWhenNoOccurrenceLeft ==
    (SecondRewriteDone /\ faults = 0
        /\ \A p \in TargetFiles(fs1) : ~Occurs(fs1[p].data, oldModule))
    => (rwRet = "nil" /\ fs = fs1 /\ writes = 0)

C3_Witness ==
    /\ SecondRewriteDone /\ rwRet = "nil" /\ writes = 0
    /\ fs1 # fs0
    /\ \A p \in TargetFiles(fs1) : ~Occurs(fs1[p].data, oldModule)
    /\ Occurs(fs1[<<NameW, NTxt>>].data, oldModule)


---------------------------------------------------------------------------
(* Orchestrator claims. *)

\* the copy loop is over
LoopOver ==
    \/ pc \in {"rewrite", "rewriting", "tidy"}
    \/ (pc = "done" /\ \E k \in 1..Len(trace) : trace[k].step = "aux")

StartsWithModule(d) ==
    Len(d) >= Len(ModulePath) /\ \A k \in 1..Len(ModulePath) : d[k] = ModulePath[k]

\* d without the module prefix and without one leading "/"
Stripped(d) ==
    LET r == SubSeq(d, Len(ModulePath) + 1, Len(d))
    IN  IF r # <<>> /\ r[1] = "/" THEN SubSeq(r, 2, Len(r)) ELSE r

InModuleDeps == SelectSeq(deps, StartsWithModule)

\* C4: a failed copyDir does not end the copy loop: copyDir is attempted for
\* every in-module dependency, and copied is the number of attempts that
\* returned nil.
C4_LoopContinues ==
    LoopOver
    => /\ [k \in 1..Len(attempts) |-> attempts[k].dep] = InModuleDeps
       /\ copied = Cardinality({k \in 1..Len(attempts) : attempts[k].err = "nil"})

C4_Witness ==
    /\ LoopOver /\ Len(attempts) = 3 /\ copied = 1
    /\ attempts[1].err # "nil" /\ attempts[2].err = "nil" /\ attempts[3].err # "nil"

\* C6: with -module-only=false copyDir is invoked for every dependency,
\* external ones included; an external dependency is skipped only when
\* -module-only is set.
C6_ExternalCopiedUnlessModuleOnly ==
    (LoopOver /\ ~moduleOnly)
    => [k \in 1..Len(attempts) |-> attempts[k].dep] = deps

\* the pipeline steps whose failure is fatal
FatalSteps == {"flags", "modinfo", "goda", "nonempty", "mkdir", "rewrite"}
FatalAt(k) == trace[k].step \in FatalSteps /\ ~trace[k].ok

\* flag.Parse accepted the command line
Parsed == trace # <<>> /\ trace[1] = Step("parse", TRUE)

\* C7 as claimed: the exit code is 1 exactly when a required flag is missing or
\* module info, the lister, the non-empty check, the creation of the output
\* directory or the rewrite failed, and 0 in every other run, also when
\* copies, the go.mod/go.sum copy or go mod tidy failed; no step runs after a
\* fatal one.
C7_ExitCode ==
    /\ pc = "done" => exitCode \in {0, 1}
    /\ pc = "done" => (exitCode = 1 <=> \E k \in 1..Len(trace) : FatalAt(k))
    /\ \A k \in 1..Len(trace) : FatalAt(k) => (k = Len(trace) /\ pc = "done")
    /\ pc # "done" => exitCode = -1

\* C7 amended: in a run whose command line flag.Parse accepts, the exit code
\* is 1 exactly when one of the six fatal steps failed and 0 otherwise; a fatal
\* step is the last step and nothing changes once the process has exited; a
\* run whose command line is rejected or asks for help exits with 2 or 0
\* before any step and without touching the file system.
C7_ExitCodeWhenParsed ==
    /\ []((pc = "done" /\ Parsed)
            => /\ exitCode \in {0, 1}
               /\ exitCode = 1 <=> \E k \in 1..Len(trace) : FatalAt(k))
    /\ [](\A k \in 1..Len(trace) : FatalAt(k) => (k = Len(trace) /\ pc = "done"))
    /\ [](pc # "done" => exitCode = -1)
    /\ []((pc = "done" /\ ~Parsed) => (Len(trace) = 1 /\ exitCode \in {0, 2} /\ fs = fs0))
    /\ [][pc = "done" => UNCHANGED vars]_vars

C7_Witness ==
    /\ pc = "done" /\ exitCode = 0 /\ Parsed
    /\ \E k \in 1..Len(trace) : trace[k].step = "copy" /\ ~trace[k].ok
    /\ \E k \in 1..Len(trace) : trace[k].step = "aux" /\ ~trace[k].ok
    /\ \E k \in 1..Len(trace) : trace[k].step = "rewrite" /\ trace[k].ok
    /\ \E k \in 1..Len(trace) : trace[k].step = "tidy" /\ ~trace[k].ok

C7_WitnessFatalRewrite ==
    /\ pc = "done" /\ exitCode = 1
    /\ trace[Len(trace)] = Step("rewrite", FALSE)
    /\ walk # <<>>

C7_WitnessUsage ==
    /\ pc = "done" /\ exitCode = 2 /\ ~Parsed

\* C8: the copyDir attempts are the dependencies that start with the module
\* identifier, in input order, duplicates kept; the relative path of each is
\* the identifier without the module prefix and without one leading "/", and
\* it is the path of the source under the module root and of the destination
\* under the output directory.
C8_AttemptsAreInModuleDepsInOrder ==
    LoopOver
    => /\ Len(attempts) = Len(InModuleDeps)
       /\ \A k \in 1..Len(attempts) :
            /\ attempts[k].dep = InModuleDeps[k]
            /\ attempts[k].rel = Stripped(InModuleDeps[k])
            /\ HasPrefix(attempts[k].src, ModuleDir)
            /\ HasPrefix(attempts[k].dst, OutputDir)
            /\ SubSeq(attempts[k].src, Len(ModuleDir) + 1, Len(attempts[k].src))
                 = SubSeq(attempts[k].dst, Len(OutputDir) + 1, Len(attempts[k].dst))
            /\ (attempts[k].rel = <<>> => attempts[k].src = ModuleDir)

C8_Witness ==
    /\ LoopOver
    /\ deps = <<DepSub, DepExternal, DepSub>>
    /\ Len(attempts) = 2
    /\ attempts[1].rel = <<"p">> /\ attempts[2].rel = <<"p">>

C8_WitnessRoot ==
    /\ LoopOver
    /\ \E k \in 1..Len(attempts) : attempts[k].dep = ModulePath /\ attempts[k].rel = <<>>
    /\ \E k \in 1..Len(attempts) : attempts[k].dep = DepSibling /\ attempts[k].rel = <<"x">>

============================================================================
